---- MODULE Spec2Model ----
(***************************************************************************)
(* The GraphQL middleware chain of saleor/graphql/middleware.py.           *)
(*                                                                         *)
(* One behaviour is one HTTP request.  The execution engine resolves the   *)
(* request's fields one after the other; every field resolution runs down  *)
(* the middleware chain (each middleware up to its call of next), reaches  *)
(* the field's resolver, which may read request.user, request.channel_slug *)
(* and request.app, and then returns (or raises) back up the chain.        *)
(***************************************************************************)
EXTENDS Integers, Sequences, FiniteSets, TLC

(* Bounds of the model. *)
MaxFields == 3
MaxReads == 2
MaxCallers == 2

(***************************************************************************)
(* Python values.                                                          *)
(***************************************************************************)
NoneVal == "None"
Absent == "<absent>"
Unread == "<unread>"

(* Truth value of a str-or-None: None and "" are false. *)
Truthy(s) == s \notin {NoneVal, ""}

(* Objects of the user kind.  id tells two objects apart. *)
NoAttr == [kind |-> "noattr", id |-> 0, email |-> ""]
PyNone == [kind |-> "none", id |-> 0, email |-> ""]
Raises == [kind |-> "raise", id |-> 0, email |-> ""]
User(e) == [kind |-> "user", id |-> 1, email |-> e]
AnonymousUser(n) == [kind |-> "anon", id |-> n, email |-> ""]

RootAddress == "root@example.com"
OtherAddress == "staff@example.com"

(* what authenticate(request=request) does for a request *)
AuthResults == {User(RootAddress), User(OtherAddress), User(""), PyNone, Raises}

(* values of settings.ROOT_EMAIL: not set, empty, set *)
RootEmails == {NoneVal, "", RootAddress}

ALLOWED_MUTATIONS ==
    { "checkoutAddPromoCode", "checkoutBillingAddressUpdate", "checkoutComplete",
      "checkoutCreate", "checkoutCustomerAttach", "checkoutCustomerDetach",
      "checkoutEmailUpdate", "checkoutLineDelete", "checkoutLinesAdd",
      "checkoutLinesUpdate", "checkoutRemovePromoCode", "checkoutPaymentCreate",
      "checkoutShippingAddressUpdate", "checkoutShippingMethodUpdate",
      "tokenCreate", "tokenVerify" }

API_PATH == "/graphql/"

JWT == "JWTMiddleware"
CHANNEL == "ChannelMiddleware"
TRACING == "OpentracingGrapheneMiddleware"
APP == "app_middleware"
READONLY == "ReadOnlyMiddleware"

(* Orders in which the five middlewares are chained: the order of the       *)
(* components in the design, the order of the definitions in the file, and  *)
(* one with the read-only guard ahead of the authentication middleware.     *)
Chains ==
    { <<JWT, CHANNEL, APP, TRACING, READONLY>>,
      <<JWT, CHANNEL, TRACING, APP, READONLY>>,
      <<READONLY, TRACING, JWT, CHANNEL, APP>> }


(***************************************************************************)
(* Authentication: get_user, JWTMiddleware.resolve.user and the forcing of *)
(* the SimpleLazyObject installed as request.user.                         *)
(***************************************************************************)

(* get_user(request): cached is request._cached_user, auth is what         *)
(* authenticate does.  called: authenticate was invoked; raised: it raised *)
(* (nothing is cached then); cached: request._cached_user afterwards,      *)
(* which is also the value returned.                                       *)
get_user(cached, auth) ==
    IF cached.kind = "noattr"
    THEN [called |-> TRUE, raised |-> auth.kind = "raise",
          cached |-> IF auth.kind = "raise" THEN cached ELSE auth]
    ELSE [called |-> FALSE, raised |-> FALSE, cached |-> cached]

(* Variant: get_user(request) returned without the AnonymousUser. *)
NoAnonymousFallback(cached, auth, fresh) ==
    LET g == get_user(cached, auth)
    IN  [called |-> g.called, raised |-> g.raised, cached |-> g.cached,
         value |-> g.cached, created |-> FALSE]

(* user(): get_user(request) or AnonymousUser(); fresh is the identity of  *)
(* the AnonymousUser object the call would create.                         *)
user(cached, auth, fresh) ==
    LET g == get_user(cached, auth)
    IN  [called |-> g.called, raised |-> g.raised, cached |-> g.cached,
         value |-> IF g.cached.kind = "none" THEN AnonymousUser(fresh) ELSE g.cached,
         created |-> ~g.raised /\ g.cached.kind = "none"]

(* request.user: not an attribute, or a SimpleLazyObject with its wrapped   *)
(* object once forced.                                                     *)
UnsetUser == [set |-> FALSE, forced |-> FALSE, wrapped |-> NoAttr]
LazyUser == [set |-> TRUE, forced |-> FALSE, wrapped |-> NoAttr]

(* Forcing request.user (SimpleLazyObject._setup): the wrapped object is   *)
(* computed by user() unless it is already there; when user() raises the   *)
(* object stays unforced.                                                  *)
force_user(slot, cached, auth, fresh) ==
    IF slot.forced
    THEN [called |-> FALSE, raised |-> FALSE, cached |-> cached, created |-> FALSE,
          slot |-> slot, value |-> slot.wrapped]
    ELSE LET u == user(cached, auth, fresh)
         IN  [called |-> u.called, raised |-> u.raised, cached |-> u.cached,
              created |-> u.created,
              slot |-> IF u.raised THEN slot
                       ELSE [slot EXCEPT !.forced = TRUE, !.wrapped = u.value],
              value |-> u.value]

(***************************************************************************)
(* Channel: the slug ChannelMiddleware.resolve takes from the arguments,   *)
(* and get_channel_slug.                                                   *)
(***************************************************************************)

(* An argument value of the dict or list kind.  keys: the keys of a dict;  *)
(* channel_slug: the value under that key when it is one of them.          *)
Dict(keys, slug) == [t |-> "dict", keys |-> keys, channel_slug |-> slug]
EmptyDict == Dict({}, NoneVal)
NoInput == [t |-> "absent", keys |-> {}, channel_slug |-> NoneVal]
ListInput == [t |-> "list", keys |-> {"0"}, channel_slug |-> NoneVal]

(* x is a dict and is not empty *)
NonEmptyDict(x) == x.t = "dict" /\ x.keys # {}

(* request_input.get("channel_slug") *)
dict_get_channel_slug(d) ==
    IF "channel_slug" \in d.keys THEN d.channel_slug ELSE NoneVal

(* Variant: the channel argument looked at before the input. *)
ChannelFirst(kwargs) ==
    LET channel == IF kwargs.channel = Absent THEN NoneVal ELSE kwargs.channel
        request_input == IF kwargs.input.t = "absent" THEN EmptyDict ELSE kwargs.input
    IN  IF channel # NoneVal THEN channel
        ELSE IF NonEmptyDict(request_input) THEN dict_get_channel_slug(request_input)
        ELSE NoneVal

(* Lines 40-47: kwargs.input is the input argument (NoInput when the key   *)
(* is not in kwargs), kwargs.channel the channel argument (Absent when the *)
(* key is not in kwargs).                                                  *)
channel_slug(kwargs) ==
    LET request_input == IF kwargs.input.t = "absent" THEN EmptyDict ELSE kwargs.input
        channel == IF kwargs.channel = Absent THEN NoneVal ELSE kwargs.channel
    IN  IF NonEmptyDict(request_input) THEN dict_get_channel_slug(request_input)
        ELSE IF channel # NoneVal THEN channel
        ELSE NoneVal

(* get_default_channel_slug_if_available(): returns a slug or raises one   *)
(* of the two exceptions.                                                  *)
DefaultSlug == "default-channel"
DefaultChannels ==
    {DefaultSlug, "ChannelSlugNotPassedException", "NoChannelException"}

(* Variant: the default channel asked for whatever the slug. *)
AlwaysDefault(seed, default) ==
    CASE default = "ChannelSlugNotPassedException" ->
            [called |-> TRUE, raised |-> TRUE, value |-> NoneVal]
      [] default = "NoChannelException" ->
            [called |-> TRUE, raised |-> FALSE, value |-> NoneVal]
      [] OTHER -> [called |-> TRUE, raised |-> FALSE, value |-> default]

(* Variant: both exceptions handled as NoChannelException is. *)
NoChannelForNotPassed(seed, default) ==
    IF ~Truthy(seed)
    THEN CASE default \in {"ChannelSlugNotPassedException", "NoChannelException"} ->
                 [called |-> TRUE, raised |-> FALSE, value |-> NoneVal]
           [] OTHER -> [called |-> TRUE, raised |-> FALSE, value |-> default]
    ELSE [called |-> FALSE, raised |-> FALSE, value |-> seed]

(* get_channel_slug(channel_slug): called: the default-channel function    *)
(* was invoked; raised: GraphQLError("Argument 'channel` not passed.").    *)
get_channel_slug(seed, default) ==
    IF ~Truthy(seed)
    THEN CASE default = "ChannelSlugNotPassedException" ->
                 [called |-> TRUE, raised |-> TRUE, value |-> NoneVal]
           [] default = "NoChannelException" ->
                 [called |-> TRUE, raised |-> FALSE, value |-> NoneVal]
           [] OTHER -> [called |-> TRUE, raised |-> FALSE, value |-> default]
    ELSE [called |-> FALSE, raised |-> FALSE, value |-> seed]

(* request.channel_slug: not an attribute; a SimpleLazyObject over         *)
(* get_channel_slug(seed), with its value once forced; or a plain str.     *)
UnsetChannel == [kind |-> "unset", seed |-> NoneVal, forced |-> FALSE, value |-> NoneVal]
LazyChannel(seed) == [kind |-> "lazy", seed |-> seed, forced |-> FALSE, value |-> NoneVal]
StrChannel(s) == [kind |-> "str", seed |-> NoneVal, forced |-> TRUE, value |-> s]


(***************************************************************************)
(* App: the Authorization header, str.split, str.lower and get_app.        *)
(* A str is a sequence of one-character strings.                           *)
(***************************************************************************)
Bearer == <<"B", "e", "a", "r", "e", "r">>
bearer == <<"b", "e", "a", "r", "e", "r">>
BEARER == <<"B", "E", "A", "R", "E", "R">>
Basic == <<"B", "a", "s", "i", "c">>
Token == <<"t", "k">>
Sp == <<" ">>

(* request.META.get("HTTP_AUTHORIZATION", ""): "" stands for no header too *)
Headers ==
    { <<>>,
      Bearer \o Sp \o Token,
      bearer \o Sp \o Sp \o Token \o Sp,
      BEARER \o Sp \o Token,
      Basic \o Sp \o Token,
      Bearer,
      Bearer \o Sp \o Token \o Sp \o Token }

(* c.lower() of one character *)
lower_char(c) ==
    CASE c = "B" -> "b" [] c = "E" -> "e" [] c = "A" -> "a" [] c = "R" -> "r"
      [] OTHER -> c

(* Variant: a case-sensitive comparison of the prefix. *)
NoLower(s) == s

(* s.lower() *)
lower(s) == [i \in 1..Len(s) |-> lower_char(s[i])]

(* s.split(): the maximal runs of characters that are not whitespace.  cur *)
(* is the run being read, out the runs read so far.                        *)
RECURSIVE split_from(_, _, _, _)
split_from(s, i, cur, out) ==
    IF i > Len(s)
    THEN IF cur = <<>> THEN out ELSE Append(out, cur)
    ELSE IF s[i] = " "
         THEN split_from(s, i + 1, <<>>, IF cur = <<>> THEN out ELSE Append(out, cur))
         ELSE split_from(s, i + 1, Append(cur, s[i]), out)

split(s) == split_from(s, 1, <<>>, <<>>)

(* request.app: not an attribute; None; or a SimpleLazyObject over         *)
(* get_app(token), with its value once forced.                             *)
NoApp == [kind |-> "none", token |-> <<>>]
App(token) == [kind |-> "app", token |-> token]
UnsetApp == [kind |-> "unset", token |-> <<>>, forced |-> FALSE, value |-> NoApp]
NoneApp == [kind |-> "none", token |-> <<>>, forced |-> TRUE, value |-> NoApp]
LazyApp(token) == [kind |-> "lazy", token |-> token, forced |-> FALSE, value |-> NoApp]

(* get_app(auth_token): active is the set of the tokens of the active apps *)
get_app(auth_token, active) ==
    IF auth_token \in active THEN App(auth_token) ELSE NoApp

(* Variant: the middleware applied on every path. *)
AnyPath(p) == TRUE

(* Line 97: request.path == API_PATH *)
on_api_path(p) == p = API_PATH

(* Variant: request.app tested for its truth value, which None fails. *)
AppIsNotNone(slot) == slot.kind = "lazy"

(* Line 98: hasattr(request, "app") *)
has_app(slot) == slot.kind # "unset"

(* Lines 99-104: the value app_middleware gives request.app *)
app_of_header(header) ==
    LET auth == split(header)
    IN  IF Len(auth) = 2 /\ lower(auth[1]) = bearer THEN LazyApp(auth[2]) ELSE NoneApp

(***************************************************************************)
(* Read-only guard.                                                        *)
(***************************************************************************)

(* Variant: the root email not tested for being set. *)
BypassOnEqualEmail(u, root_email) ==
    /\ u.kind # "anon"
    /\ u.email = root_email

(* Lines 137-140, once request.user is forced to the object u: the bypass  *)
(* for the user whose email is settings.ROOT_EMAIL.                        *)
(* Variant: the test of is_anonymous without its "not". *)
AnonymousBypass(u, root_email) ==
    /\ u.kind = "anon"
    /\ Truthy(root_email)
    /\ u.email = root_email

root_bypass(u, root_email) ==
    /\ u.kind # "anon"
    /\ Truthy(root_email)
    /\ u.email = root_email

(* Variant: every operation but a query guarded. *)
NotQuery(op) == op # "query"

(* Line 131: operation != "mutation" negated *)
is_mutation(op) == op = "mutation"

(* Lines 143-149: the loop over the top-level selections, from the i-th.   *)
(* TRUE when it raises ReadOnlyException.                                  *)
RECURSIVE blocked_from(_, _)
blocked_from(selections, i) ==
    IF i > Len(selections) THEN FALSE
    ELSE IF selections[i] \notin ALLOWED_MUTATIONS THEN TRUE
    ELSE blocked_from(selections, i + 1)

(* Variant: only the first selection looked at. *)
FirstSelectionOnly(selections) ==
    Len(selections) > 0 /\ selections[1] \notin ALLOWED_MUTATIONS

blocked(selections) == blocked_from(selections, 1)


(***************************************************************************)
(* State.                                                                  *)
(***************************************************************************)
VARIABLES
    (* the request, the settings and the collaborators: fixed for a request *)
    authenticate,       \* what authenticate(request=request) does
    ROOT_EMAIL,         \* getattr(settings, "ROOT_EMAIL", None)
    default_channel,    \* what get_default_channel_slug_if_available() does
    operation,          \* info.operation: its kind and top-level selections
    path,               \* request.path
    header,             \* request.META.get("HTTP_AUTHORIZATION", "")
    active_apps,        \* the auth tokens of the active App rows
    chain,              \* the middlewares in the order they are chained
    document,           \* the fields of the request: their arguments,
                        \* should_trace(info), what their resolvers read
    (* attributes of the request object *)
    cached_user,        \* request._cached_user
    request_user,       \* request.user
    request_channel_slug,
    request_app,
    (* the field resolution in progress *)
    phase,              \* "idle", "chain", "resolver", "unwind"
    pc,                 \* the middleware about to run, or the frame to leave
    kwargs,             \* the arguments of the field
    traced,             \* should_trace(info)
    reads,              \* reads of request attributes made by the resolver
    fields,             \* field resolutions started
    error,              \* the exception propagating, "none" without one
    last,               \* the step taken last
    next_calls,         \* how often each middleware called next for this field
    slug,               \* channel_slug of lines 40-47, at the last run
    (* tracing *)
    span_open, spans_opened, spans_closed,
    (* what happened in the request so far *)
    auth_calls,         \* invocations of authenticate
    user_was_read,      \* request.user was read
    users_seen,         \* identities of the objects the reads of request.user gave
    next_id,            \* identity of the next object created
    user_installs,      \* assignments to request.user
    app_installs,       \* assignments to request.app
    header_parses,      \* evaluations of the header's split
    app_lookups,        \* invocations of get_app
    default_calls,      \* invocations of get_default_channel_slug_if_available
    chan_forced_to,     \* what the first forcing of the lazy channel slug gave
    chan_first,         \* what the first read of request.channel_slug gave
    chan_read,          \* what the last read of request.channel_slug gave
    pending_slug,       \* last explicit slug that arrived before any read
    (* callers that force request.user at the same time *)
    race                \* per caller: where it is in the forcing, the
                        \* SimpleLazyObject it holds, its local value, the
                        \* object it got; per SimpleLazyObject: _wrapped

config == <<authenticate, ROOT_EMAIL, default_channel, operation, path, header,
            active_apps, chain, document>>
userVars == <<cached_user, request_user, auth_calls, user_was_read, users_seen,
              next_id>>
chanVars == <<request_channel_slug, default_calls, chan_forced_to, chan_first,
              chan_read, pending_slug, slug>>
appVars == <<request_app, app_installs, header_parses, app_lookups>>
spanVars == <<span_open, spans_opened, spans_closed>>
fieldVars == <<phase, pc, kwargs, traced, reads, fields, error, last, next_calls>>
vars == <<config, userVars, user_installs, chanVars, appVars, spanVars, fieldVars,
          race>>

Middlewares == {JWT, CHANNEL, TRACING, APP, READONLY}

(***************************************************************************)
(* The requests checked.                                                   *)
(***************************************************************************)
Args(input, channel) == [input |-> input, channel |-> channel]
NoArgs == Args(NoInput, Absent)

FieldArgs ==
    { NoArgs,
      Args(NoInput, "A"), Args(NoInput, "B"), Args(NoInput, ""),
      Args(NoInput, NoneVal),
      Args(Dict({"channel_slug"}, "A"), "B"),
      Args(Dict({"channel_slug"}, "A"), Absent),
      Args(Dict({"channel_slug"}, NoneVal), "B"),
      Args(Dict({"other"}, NoneVal), "B"),
      Args(EmptyDict, "B"),
      Args(ListInput, "B") }

Operation(kind, selections) == [operation |-> kind, selections |-> selections]
Operations ==
    { Operation("mutation", <<"tokenCreate">>),
      Operation("mutation", <<"productCreate">>),
      Operation("mutation", <<"tokenCreate", "productCreate">>),
      Operation("mutation", <<"productCreate", "tokenCreate">>),
      Operation("mutation", <<"tokenCreate", "checkoutCreate">>),
      Operation("query", <<"productCreate">>),
      Operation("subscription", <<"productCreate">>) }

Document(args, traces, readers) ==
    [args |-> args, traces |-> traces, readers |-> readers]

(* requests that differ in the user, the root email and the operation *)
GuardRequests ==
    [ authenticate : AuthResults, ROOT_EMAIL : RootEmails,
      default_channel : {DefaultSlug}, operation : Operations,
      path : {API_PATH}, header : {<<>>}, active_apps : {{}},
      chain : Chains,
      document : {Document({NoArgs}, {FALSE}, {"user"})} ]

(* requests that differ in the channel arguments and the default channel *)
ChannelRequests ==
    [ authenticate : {PyNone}, ROOT_EMAIL : {NoneVal},
      default_channel : DefaultChannels,
      operation : {Operation("query", <<"products">>)},
      path : {API_PATH}, header : {<<>>}, active_apps : {{}},
      chain : {<<JWT, CHANNEL, APP, TRACING, READONLY>>},
      document : {Document(FieldArgs, {FALSE}, {"channel_slug"})} ]

(* requests that differ in the path, the header and the apps *)
AppRequests ==
    [ authenticate : {PyNone}, ROOT_EMAIL : {NoneVal},
      default_channel : {DefaultSlug},
      operation : {Operation("query", <<"products">>)},
      path : {API_PATH, "/plugins/"}, header : Headers,
      active_apps : {{}, {Token}},
      chain : {<<JWT, CHANNEL, APP, TRACING, READONLY>>},
      document : {Document({NoArgs}, {FALSE}, {"app"})} ]

(* requests with traced fields and with every attribute read *)
TracedRequests ==
    [ authenticate : {User(OtherAddress), Raises}, ROOT_EMAIL : {RootAddress},
      default_channel : {"ChannelSlugNotPassedException"},
      operation : {Operation("mutation", <<"tokenCreate">>),
                   Operation("mutation", <<"productCreate">>)},
      path : {API_PATH}, header : {Bearer \o Sp \o Token},
      active_apps : {{Token}},
      chain : Chains,
      document : {Document({NoArgs, Args(NoInput, "A")}, {TRUE, FALSE},
                           {"user", "channel_slug", "app"})} ]

Requests == GuardRequests \cup ChannelRequests \cup AppRequests \cup TracedRequests

(* Callers of a forcing that overlaps with others, and the                 *)
(* SimpleLazyObjects they hold.                                           *)
Callers == 1..MaxCallers
Lazies == {1, 2}

(* no such callers *)
RaceOff ==
    [pc |-> [t \in Callers |-> "off"], lazy |-> [t \in Callers |-> 1],
     local |-> [t \in Callers |-> NoAttr], seen |-> [t \in Callers |-> NoAttr],
     wrapped |-> [l \in Lazies |-> NoAttr]]

Init ==
    /\ race = RaceOff
    /\ \E r \in Requests :
          /\ authenticate = r.authenticate
          /\ ROOT_EMAIL = r.ROOT_EMAIL
          /\ default_channel = r.default_channel
          /\ operation = r.operation
          /\ path = r.path
          /\ header = r.header
          /\ active_apps = r.active_apps
          /\ chain = r.chain
          /\ document = r.document
    /\ cached_user = NoAttr
    /\ request_user = UnsetUser
    /\ request_channel_slug = UnsetChannel
    /\ request_app = UnsetApp
    /\ phase = "idle"
    /\ pc = 0
    /\ kwargs = NoArgs
    /\ traced = FALSE
    /\ reads = 0
    /\ fields = 0
    /\ error = "none"
    /\ last = "init"
    /\ next_calls = [m \in Middlewares |-> 0]
    /\ slug = NoneVal
    /\ span_open = FALSE
    /\ spans_opened = 0
    /\ spans_closed = 0
    /\ auth_calls = 0
    /\ user_was_read = FALSE
    /\ users_seen = {}
    /\ next_id = 2
    /\ user_installs = 0
    /\ app_installs = 0
    /\ header_parses = 0
    /\ app_lookups = 0
    /\ default_calls = 0
    /\ chan_forced_to = Unread
    /\ chan_first = Unread
    /\ chan_read = Unread
    /\ pending_slug = NoneVal


(***************************************************************************)
(* Control: calling next, raising, returning.                              *)
(***************************************************************************)

(* Variant: next called a second time. *)
NextCalledTwice(mw) ==
    /\ next_calls' = [next_calls EXCEPT ![mw] = @ + 2]
    /\ IF pc = Len(chain)
       THEN phase' = "resolver" /\ pc' = pc
       ELSE phase' = "chain" /\ pc' = pc + 1

(* return next(root, info, **kwargs) by the middleware at pc: the rest of  *)
(* the chain runs, and after the last middleware the field's resolver.     *)
call_next(mw) ==
    /\ next_calls' = [next_calls EXCEPT ![mw] = @ + 1]
    /\ IF pc = Len(chain)
       THEN phase' = "resolver" /\ pc' = pc
       ELSE phase' = "chain" /\ pc' = pc + 1

(* the middleware at pc raises e: the frames below it are left in turn *)
raise_here(e) ==
    /\ error' = e
    /\ next_calls' = next_calls
    /\ IF pc = 1
       THEN phase' = "idle" /\ pc' = 0
       ELSE phase' = "unwind" /\ pc' = pc - 1

(* The execution engine starts the resolution of one more field. *)
StartField ==
    /\ phase = "idle"
    /\ fields < MaxFields
    /\ \E a \in document.args, t \in document.traces :
          /\ kwargs' = a
          /\ traced' = t
    /\ phase' = "chain"
    /\ pc' = 1
    /\ reads' = 0
    /\ fields' = fields + 1
    /\ error' = "none"
    /\ last' = "StartField"
    /\ next_calls' = [m \in Middlewares |-> 0]
    /\ span_open' = FALSE
    /\ spans_opened' = 0
    /\ spans_closed' = 0
    /\ UNCHANGED <<config, race, userVars, user_installs, chanVars, appVars>>

(***************************************************************************)
(* JWTMiddleware.resolve                                                   *)
(***************************************************************************)
JWTMiddleware_resolve ==
    /\ phase = "chain"
    /\ chain[pc] = JWT
    /\ request_user' = LazyUser
    /\ user_installs' = user_installs + 1
    /\ call_next(JWT)
    /\ last' = JWT
    /\ UNCHANGED <<config, race, cached_user, auth_calls, user_was_read, users_seen, next_id,
                   chanVars, appVars, spanVars, kwargs, traced, reads, fields, error>>

(* A read of request.user that uses the object (its truth value, one of    *)
(* its attributes) forces it: f is force_user at the current state.        *)
user_read(f) ==
    /\ cached_user' = f.cached
    /\ request_user' = f.slot
    /\ auth_calls' = auth_calls + (IF f.called THEN 1 ELSE 0)
    /\ user_was_read' = TRUE
    /\ users_seen' = IF f.raised THEN users_seen ELSE users_seen \cup {f.value.id}
    /\ next_id' = next_id + (IF f.created THEN 1 ELSE 0)

(* the resolver raises e, or returns when e is "none" *)
resolver_ends(e) ==
    /\ phase' = "unwind"
    /\ pc' = Len(chain)
    /\ error' = e

(* The field's resolver reads request.user. *)
ReadUser ==
    /\ phase = "resolver"
    /\ "user" \in document.readers
    /\ reads < MaxReads
    /\ request_user.set
    /\ LET f == force_user(request_user, cached_user, authenticate, next_id)
       IN  /\ user_read(f)
           /\ IF f.raised
              THEN resolver_ends("AuthenticationError")
              ELSE UNCHANGED <<phase, pc, error>>
    /\ reads' = reads + 1
    /\ last' = "ReadUser"
    /\ UNCHANGED <<config, race, user_installs, chanVars, appVars, spanVars, kwargs, traced,
                   fields, next_calls>>

(***************************************************************************)
(* ChannelMiddleware.resolve                                               *)
(***************************************************************************)
ChannelMiddleware_resolve ==
    /\ phase = "chain"
    /\ chain[pc] = CHANNEL
    /\ LET channel == channel_slug(kwargs)
           \* lines 48-53: isinstance holds of a SimpleLazyObject whether or
           \* not it was forced
           replaced == IF /\ request_channel_slug.kind # "unset"
                          /\ request_channel_slug.kind = "lazy"
                          /\ Truthy(channel)
                       THEN StrChannel(channel)
                       ELSE request_channel_slug
           \* lines 54-68
           installed == IF replaced.kind = "unset" THEN LazyChannel(channel)
                        ELSE replaced
       IN  /\ request_channel_slug' = installed
           /\ slug' = channel
           /\ pending_slug' = IF /\ request_channel_slug.kind # "unset"
                                 /\ chan_first = Unread
                                 /\ Truthy(channel)
                              THEN channel
                              ELSE pending_slug
    /\ call_next(CHANNEL)
    /\ last' = CHANNEL
    /\ UNCHANGED <<config, race, userVars, user_installs, default_calls, chan_forced_to,
                   chan_first, chan_read, appVars, spanVars, kwargs, traced, reads,
                   fields, error>>

(* The field's resolver reads request.channel_slug. *)
ReadChannel ==
    /\ phase = "resolver"
    /\ "channel_slug" \in document.readers
    /\ reads < MaxReads
    /\ request_channel_slug.kind # "unset"
    /\ LET forcing == request_channel_slug.kind = "lazy" /\ ~request_channel_slug.forced
           g == get_channel_slug(request_channel_slug.seed, default_channel)
       IN  IF forcing
           THEN /\ default_calls' = default_calls + (IF g.called THEN 1 ELSE 0)
                /\ IF g.raised
                   THEN /\ resolver_ends("GraphQLError")
                        /\ UNCHANGED <<request_channel_slug, chan_forced_to,
                                       chan_first, chan_read>>
                   ELSE /\ request_channel_slug' =
                              [request_channel_slug EXCEPT !.forced = TRUE,
                                                           !.value = g.value]
                        /\ chan_forced_to' = g.value
                        /\ chan_first' = IF chan_first = Unread THEN g.value
                                         ELSE chan_first
                        /\ chan_read' = g.value
                        /\ UNCHANGED <<phase, pc, error>>
           ELSE /\ chan_read' = request_channel_slug.value
                /\ chan_first' = IF chan_first = Unread
                                 THEN request_channel_slug.value ELSE chan_first
                /\ UNCHANGED <<request_channel_slug, default_calls, chan_forced_to,
                               phase, pc, error>>
    /\ reads' = reads + 1
    /\ last' = "ReadChannel"
    /\ UNCHANGED <<config, race, userVars, user_installs, pending_slug, slug, appVars,
                   spanVars, kwargs, traced, fields, next_calls>>


(***************************************************************************)
(* OpentracingGrapheneMiddleware.resolve: up to its call of next.  The     *)
(* span is closed when the frame is left (Unwind).                         *)
(***************************************************************************)
OpentracingGrapheneMiddleware_resolve ==
    /\ phase = "chain"
    /\ chain[pc] = TRACING
    /\ IF ~traced
       THEN UNCHANGED spanVars
       ELSE /\ span_open' = TRUE
            /\ spans_opened' = spans_opened + 1
            /\ spans_closed' = spans_closed
    /\ call_next(TRACING)
    /\ last' = TRACING
    /\ UNCHANGED <<config, race, userVars, user_installs, chanVars, appVars, kwargs, traced,
                   reads, fields, error>>

(***************************************************************************)
(* app_middleware                                                          *)
(***************************************************************************)
app_middleware ==
    /\ phase = "chain"
    /\ chain[pc] = APP
    /\ IF on_api_path(path) /\ ~has_app(request_app)
       THEN /\ request_app' = app_of_header(header)
            /\ app_installs' = app_installs + 1
            /\ header_parses' = header_parses + 1
       ELSE UNCHANGED <<request_app, app_installs, header_parses>>
    /\ call_next(APP)
    /\ last' = APP
    /\ UNCHANGED <<config, race, userVars, user_installs, chanVars, app_lookups, spanVars,
                   kwargs, traced, reads, fields, error>>

(* The field's resolver reads request.app. *)
ReadApp ==
    /\ phase = "resolver"
    /\ "app" \in document.readers
    /\ reads < MaxReads
    /\ request_app.kind # "unset"
    /\ IF request_app.kind = "lazy" /\ ~request_app.forced
       THEN /\ request_app' = [request_app EXCEPT
                                  !.forced = TRUE,
                                  !.value = get_app(request_app.token, active_apps)]
            /\ app_lookups' = app_lookups + 1
       ELSE UNCHANGED <<request_app, app_lookups>>
    /\ reads' = reads + 1
    /\ last' = "ReadApp"
    /\ UNCHANGED <<config, race, userVars, user_installs, chanVars, app_installs,
                   header_parses, spanVars, phase, pc, kwargs, traced, fields, error,
                   next_calls>>

(***************************************************************************)
(* ReadOnlyMiddleware.resolve                                              *)
(***************************************************************************)
ReadOnlyMiddleware_resolve ==
    /\ phase = "chain"
    /\ chain[pc] = READONLY
    /\ LET f == force_user(request_user, cached_user, authenticate, next_id)
           \* lines 143-150
           check == IF blocked(operation.selections)
                    THEN raise_here("ReadOnlyException")
                    ELSE call_next(READONLY) /\ error' = error
       IN  IF ~is_mutation(operation.operation)
           THEN /\ call_next(READONLY) /\ error' = error
                /\ UNCHANGED userVars
           ELSE IF ~request_user.set
                \* getattr(request, "user", None) is None
                THEN check /\ UNCHANGED userVars
                \* "user and ..." forces request.user
                ELSE /\ user_read(f)
                     /\ IF f.raised
                        THEN raise_here("AuthenticationError")
                        ELSE IF root_bypass(f.value, ROOT_EMAIL)
                             THEN call_next(READONLY) /\ error' = error
                             ELSE check
    /\ last' = READONLY
    /\ UNCHANGED <<config, race, user_installs, chanVars, appVars, spanVars, kwargs, traced,
                   reads, fields>>

(***************************************************************************)
(* The resolver's end and the way back up the chain.                       *)
(***************************************************************************)
ResolverReturns ==
    /\ phase = "resolver"
    /\ resolver_ends("none")
    /\ last' = "ResolverReturns"
    /\ UNCHANGED <<config, race, userVars, user_installs, chanVars, appVars, spanVars,
                   kwargs, traced, reads, fields, next_calls>>

ResolverRaises ==
    /\ phase = "resolver"
    /\ resolver_ends("ResolverError")
    /\ last' = "ResolverRaises"
    /\ UNCHANGED <<config, race, userVars, user_installs, chanVars, appVars, spanVars,
                   kwargs, traced, reads, fields, next_calls>>

(* Variant: the span closed after next returned, outside any with or       *)
(* finally.                                                                *)
CloseOnReturnOnly(mw, open, e) == mw = TRACING /\ open /\ e = "none"

(* Line 78: leaving the with statement closes the scope that was opened,   *)
(* whether next returned or raised e.                                      *)
scope_exit(mw, open, e) == mw = TRACING /\ open

(* Variant: the with statement swallowing the exception. *)
TracingSwallows(mw, e) == IF mw = TRACING THEN "none" ELSE e

(* Lines 34, 69, 76, 83, 105, 132, 141, 150: what leaves the frame of      *)
(* middleware mw when e left its call of next ("none": next returned).     *)
leave_frame(mw, e) == e

(* The frame of the middleware at pc is left, with the value or the        *)
(* exception of its call of next: no middleware has an except clause; the  *)
(* with statement of line 78 closes the span either way.                   *)
Unwind ==
    /\ phase = "unwind"
    /\ IF scope_exit(chain[pc], span_open, error)
       THEN /\ span_open' = FALSE
            /\ spans_closed' = spans_closed + 1
            /\ spans_opened' = spans_opened
       ELSE UNCHANGED spanVars
    /\ pc' = pc - 1
    /\ phase' = IF pc = 1 THEN "idle" ELSE "unwind"
    /\ error' = leave_frame(chain[pc], error)
    /\ last' = "Unwind"
    /\ UNCHANGED <<config, race, userVars, user_installs, chanVars, appVars, kwargs, traced,
                   reads, fields, next_calls>>

Next ==
    \/ StartField
    \/ JWTMiddleware_resolve
    \/ ChannelMiddleware_resolve
    \/ OpentracingGrapheneMiddleware_resolve
    \/ app_middleware
    \/ ReadOnlyMiddleware_resolve
    \/ ReadUser
    \/ ReadChannel
    \/ ReadApp
    \/ ResolverReturns
    \/ ResolverRaises
    \/ Unwind

Spec == Init /\ [][Next]_vars


(***************************************************************************)
(* Properties.                                                             *)
(***************************************************************************)

(* C1: authenticate is invoked at most once per request, whatever it does, *)
(* and never before request.user was read.                                 *)
C1_AuthenticateAtMostOnce ==
    /\ auth_calls <= 1
    /\ (auth_calls > 0 => user_was_read)

(* C2: all the reads of request.user made in one request give the same     *)
(* object, whether authenticate gave a user or None.                       *)
C2_SameIdentityObject == Cardinality(users_seen) <= 1

(* The state right after ReadOnlyMiddleware.resolve ran for a mutation. *)
GuardRanOnMutation == last = READONLY /\ operation.operation = "mutation"

(* request.user resolved to an authenticated user whose email is the       *)
(* non-empty ROOT_EMAIL.                                                   *)
IsRootUser ==
    /\ request_user.set
    /\ request_user.forced
    /\ request_user.wrapped.kind = "user"
    /\ ROOT_EMAIL \notin {NoneVal, ""}
    /\ request_user.wrapped.email = ROOT_EMAIL

(* The requester is known not to be that user: request.user is not set, or *)
(* it resolved to another object.                                          *)
IsNotRootUser ==
    \/ ~request_user.set
    \/ request_user.forced /\ ~IsRootUser

SomeSelectionBlocked ==
    \E i \in DOMAIN operation.selections :
        operation.selections[i] \notin ALLOWED_MUTATIONS

C4_RootEmailBypass ==
    (GuardRanOnMutation /\ IsRootUser) =>
        /\ error = "none"
        /\ next_calls[READONLY] = 1
        /\ phase \in {"chain", "resolver"}

C4_Witness ==
    /\ GuardRanOnMutation
    /\ IsRootUser
    /\ SomeSelectionBlocked
    /\ error = "none"
    /\ next_calls[READONLY] = 1

(* C5: once a consumer forced the channel slug to X, every later read of   *)
(* request.channel_slug gives X.                                           *)
C5_ForcedChannelKept ==
    chan_forced_to # Unread => chan_read = chan_forced_to

(* C6: the explicit slug that arrived last while the set slot was not yet  *)
(* read is what the slot gives when it is read.                            *)
C6_LastExplicitSlugWins ==
    (chan_first # Unread /\ pending_slug # NoneVal) => chan_first = pending_slug

(* The slug the arguments of the field carry: the channel_slug key of a    *)
(* non-empty dict input, else the channel argument, else None.             *)
ExpectedSlug ==
    IF kwargs.input.t = "dict" /\ kwargs.input.keys # {}
    THEN IF "channel_slug" \in kwargs.input.keys
         THEN kwargs.input.channel_slug ELSE NoneVal
    ELSE IF kwargs.channel \notin {Absent, NoneVal} THEN kwargs.channel
    ELSE NoneVal

(* C7: ChannelMiddleware.resolve derives that slug; input {channel_slug:   *)
(* A} with channel B gives A.                                              *)
C7_ExplicitSlugPriority ==
    last = CHANNEL =>
        /\ slug = ExpectedSlug
        /\ (kwargs = Args(Dict({"channel_slug"}, "A"), "B") => slug = "A")

C7_Witness ==
    /\ last = CHANNEL
    /\ kwargs = Args(Dict({"channel_slug"}, "A"), "B")
    /\ slug = "A"

(* A step that forces the lazy channel slug and returns. *)
ChannelForced ==
    /\ request_channel_slug.kind = "lazy"
    /\ ~request_channel_slug.forced
    /\ request_channel_slug'.kind = "lazy"
    /\ request_channel_slug'.forced

(* the forcing gives what get_default_channel_slug_if_available gives, and *)
(* None without an error when it raises NoChannelException                 *)
DefaultChannelGiven ==
    /\ default_calls' = default_calls + 1
    /\ error' = "none"
    /\ IF default_channel = "NoChannelException"
       THEN request_channel_slug'.value = NoneVal
       ELSE request_channel_slug'.value = default_channel

ExplicitSlugGiven ==
    /\ request_channel_slug'.value = request_channel_slug.seed
    /\ default_calls' = default_calls
    /\ default_calls = 0

(* C8 as stated: a slot installed with any slug, the empty one included,   *)
(* gives that slug without a call of the default-channel function.         *)
C8_AnySlugReturned ==
    [][ChannelForced =>
          IF request_channel_slug.seed # NoneVal
          THEN ExplicitSlugGiven ELSE DefaultChannelGiven]_vars

(* C8: a slot installed with a non-empty slug gives that slug and the      *)
(* default-channel function is never invoked; installed with None or with  *)
(* the empty slug it gives the default slug, or None on NoChannelException. *)
C8_NonEmptySlugReturned ==
    /\ [](request_channel_slug.kind = "lazy" /\ Truthy(request_channel_slug.seed)
            => default_calls = 0)
    /\ [][ChannelForced =>
            IF Truthy(request_channel_slug.seed)
            THEN ExplicitSlugGiven ELSE DefaultChannelGiven]_vars

C8_Witness ==
    /\ request_channel_slug.kind = "lazy"
    /\ request_channel_slug.forced
    /\ request_channel_slug.seed = "A"
    /\ request_channel_slug.value = "A"
    /\ default_calls = 0
    /\ last = "ReadChannel"

(* C9: when the default-channel function raises ChannelSlugNotPassed-      *)
(* Exception, ChannelMiddleware.resolve installs the slot, raises nothing  *)
(* and calls next; GraphQLError is raised by the read that forces a slot   *)
(* installed without a slug, and by nothing else.                          *)
C9_MissingChannelOnForce ==
    /\ [](default_channel = "ChannelSlugNotPassedException" =>
            /\ last = CHANNEL =>
                  /\ error = "none"
                  /\ request_channel_slug.kind # "unset"
                  /\ next_calls[CHANNEL] = 1
                  /\ phase \in {"chain", "resolver"}
            /\ error = "GraphQLError" =>
                  /\ last \in {"ReadChannel", "Unwind"}
                  /\ reads > 0
                  /\ next_calls[CHANNEL] = 1)
    /\ [][(default_channel = "ChannelSlugNotPassedException" /\ last' = "ReadChannel")
            => (error' = "GraphQLError" <=>
                   /\ request_channel_slug.kind = "lazy"
                   /\ ~request_channel_slug.forced
                   /\ ~Truthy(request_channel_slug.seed))]_vars

C9_Witness ==
    /\ default_channel = "ChannelSlugNotPassedException"
    /\ last = "ReadChannel"
    /\ error = "GraphQLError"
    /\ request_channel_slug.kind = "lazy"
    /\ ~request_channel_slug.forced
    /\ fields = 2

(* The states of the slots: UNSET, LAZY, FORCED. *)
UserState(u) == IF ~u.set THEN "UNSET" ELSE IF u.forced THEN "FORCED" ELSE "LAZY"
ChannelState(c) ==
    IF c.kind = "unset" THEN "UNSET" ELSE IF c.forced THEN "FORCED" ELSE "LAZY"
AppState(a) ==
    IF a.kind = "unset" THEN "UNSET" ELSE IF a.forced THEN "FORCED" ELSE "LAZY"

Forward == {<<"UNSET", "LAZY">>, <<"LAZY", "FORCED">>, <<"UNSET", "FORCED">>}
Stay == {<<"UNSET", "UNSET">>, <<"LAZY", "LAZY">>, <<"FORCED", "FORCED">>}

(* C10: every slot only moves forward, UNSET to LAZY to FORCED; request.   *)
(* user and request.app are assigned at most once in a request.            *)
C10_SlotsOnlyMoveForward ==
    [][/\ <<UserState(request_user), UserState(request_user')>> \in Forward \cup Stay
       /\ <<ChannelState(request_channel_slug), ChannelState(request_channel_slug')>>
              \in Forward \cup Stay
       /\ <<AppState(request_app), AppState(request_app')>> \in Forward \cup Stay
       /\ user_installs' <= 1
       /\ app_installs' <= 1]_vars


(* C11: a lazy slot is computed once and its outcome, a failure included,  *)
(* is kept: the default-channel function and get_app are invoked at most   *)
(* once in a request.                                                      *)
C11_DeferredComputedOnce ==
    /\ default_calls <= 1
    /\ app_lookups <= 1

(* C12: off the API path app_middleware leaves request.app unset, does not *)
(* look at the header, looks up no app, and calls next.                    *)
C12_OtherPathPassthrough ==
    path # API_PATH =>
        /\ request_app.kind = "unset"
        /\ app_installs = 0
        /\ header_parses = 0
        /\ app_lookups = 0
        /\ last = APP =>
              /\ next_calls[APP] = 1
              /\ error = "none"
              /\ phase \in {"chain", "resolver"}

C12_Witness ==
    /\ path # API_PATH
    /\ header = Bearer \o Sp \o Token
    /\ last = APP
    /\ fields = 2
    /\ next_calls[APP] = 1

(* the headers made of two parts, the first of them "bearer" in any case *)
BearerHeaders ==
    { Bearer \o Sp \o Token,
      bearer \o Sp \o Sp \o Token \o Sp,
      BEARER \o Sp \o Token }

(* C13: on the API path request.app becomes a lazy lookup of the token for *)
(* exactly those headers; for the others it is None and get_app is never   *)
(* invoked.                                                                *)
C13_BearerHeaderOnly ==
    (path = API_PATH /\ request_app.kind # "unset") =>
        IF header \in BearerHeaders
        THEN /\ request_app.kind = "lazy"
             /\ request_app.token = Token
             /\ request_app.forced =>
                   request_app.value = IF Token \in active_apps THEN App(Token)
                                       ELSE NoApp
        ELSE /\ request_app.kind = "none"
             /\ request_app.value = NoApp
             /\ app_lookups = 0

C13_Witness ==
    /\ path = API_PATH
    /\ header = BEARER \o Sp \o Token
    /\ request_app.kind = "lazy"
    /\ request_app.forced
    /\ request_app.value = App(Token)
    /\ app_lookups = 1

(* C14: the header is split at most once in a request and request.app is   *)
(* assigned at most once, also when it is None.                            *)
C14_HeaderParsedOnce ==
    /\ [](header_parses <= 1 /\ app_installs <= 1)
    /\ [][request_app.kind # "unset" =>
            \/ request_app' = request_app
            \/ /\ request_app.kind = "lazy"
               /\ last' = "ReadApp"
               /\ request_app'.kind = "lazy"
               /\ request_app'.token = request_app.token]_vars

C14_Witness ==
    /\ path = API_PATH
    /\ request_app.kind = "none"
    /\ header = Basic \o Sp \o Token
    /\ header_parses = 1
    /\ last = APP
    /\ fields = 3

(* the place of the tracing middleware in the chain *)
TracingIndex == CHOOSE i \in DOMAIN chain : chain[i] = TRACING

(* C15: a traced field opens one span and closes it once, whether next     *)
(* returns or raises, and before the exception reaches the caller; a field *)
(* that is not traced opens none.                                          *)
C15_SpanClosedOnce ==
    /\ spans_opened <= 1
    /\ spans_closed <= spans_opened
    /\ (span_open <=> spans_opened = spans_closed + 1)
    /\ last = TRACING =>
          /\ spans_opened = (IF traced THEN 1 ELSE 0)
          /\ span_open = traced
          /\ next_calls[TRACING] = 1
    /\ (phase = "unwind" /\ pc < TracingIndex) => ~span_open
    /\ (phase = "idle" /\ fields > 0) =>
          /\ ~span_open
          /\ spans_closed = (IF traced /\ next_calls[TRACING] = 1 THEN 1 ELSE 0)

C15_Witness ==
    /\ phase = "idle"
    /\ traced
    /\ error = "ResolverError"
    /\ spans_opened = 1
    /\ spans_closed = 1

(* C16: the exception that leaves next leaves every middleware above it    *)
(* unchanged, next is not called again, and the exception of authenticate  *)
(* leaves the read that forces request.user.                               *)
C16_ErrorsPropagate ==
    /\ [][phase = "unwind" =>
            /\ error' = error
            /\ next_calls' = next_calls
            /\ phase' \in {"unwind", "idle"}]_vars
    /\ [][(/\ authenticate = Raises
           /\ request_user.set
           /\ user_was_read'
           /\ auth_calls' = auth_calls + 1) =>
            /\ error' = "AuthenticationError"
            /\ phase' \in {"unwind", "idle"}]_vars

C16_Witness ==
    /\ phase = "idle"
    /\ error = "ResolverError"
    /\ traced
    /\ spans_closed = 1
    /\ \A m \in Middlewares : next_calls[m] = 1

(* C18: for a query or a subscription the guard calls next, raises nothing *)
(* and does not read request.user.                                         *)
C18_NonMutationPassthrough ==
    [][(phase = "chain" /\ chain[pc] = READONLY /\ operation.operation # "mutation") =>
          /\ error' = "none"
          /\ next_calls' = [next_calls EXCEPT ![READONLY] = 1]
          /\ phase' \in {"chain", "resolver"}
          /\ request_user' = request_user
          /\ cached_user' = cached_user
          /\ auth_calls' = auth_calls
          /\ user_was_read' = user_was_read]_vars

C18_Witness ==
    /\ last = READONLY
    /\ operation = Operation("subscription", <<"productCreate">>)
    /\ authenticate = User(RootAddress)
    /\ request_user.set
    /\ ~request_user.forced
    /\ auth_calls = 0
    /\ next_calls[READONLY] = 1
    /\ error = "none"

(* C19: a mutation with a selection that is not allowed is rejected when   *)
(* request.user is not set as the guard runs, when it resolves to the      *)
(* anonymous user, and when ROOT_EMAIL is unset or empty; with request.user *)
(* not set the guard does not invoke authenticate.                         *)
C19_NoBypassWithoutRootUser ==
    /\ [](GuardRanOnMutation /\ SomeSelectionBlocked =>
            /\ ~request_user.set =>
                  error = "ReadOnlyException" /\ next_calls[READONLY] = 0
            /\ (request_user.forced /\ request_user.wrapped.kind = "anon") =>
                  error = "ReadOnlyException" /\ next_calls[READONLY] = 0
            /\ ROOT_EMAIL \in {NoneVal, ""} =>
                  /\ next_calls[READONLY] = 0
                  /\ phase \in {"unwind", "idle"}
                  /\ error = IF request_user.set /\ ~request_user.forced
                             THEN "AuthenticationError" ELSE "ReadOnlyException")
    /\ [][(phase = "chain" /\ chain[pc] = READONLY /\ ~request_user.set) =>
            /\ auth_calls' = auth_calls
            /\ cached_user' = cached_user
            /\ request_user' = request_user]_vars

C19_Witness ==
    /\ GuardRanOnMutation
    /\ SomeSelectionBlocked
    /\ ~request_user.set
    /\ authenticate = User(RootAddress)
    /\ ROOT_EMAIL = RootAddress
    /\ error = "ReadOnlyException"
    /\ auth_calls = 0

(* C20 as stated: a middleware that runs calls next once, with the         *)
(* arguments it got, unless it is the guard raising ReadOnlyException.     *)
C20_NextOnceButReadOnly ==
    [][phase = "chain" =>
          /\ kwargs' = kwargs
          /\ next_calls[chain[pc]] = 0
          /\ IF chain[pc] = READONLY /\ error' = "ReadOnlyException"
             THEN next_calls' = next_calls
             ELSE next_calls' = [next_calls EXCEPT ![chain[pc]] = 1]]_vars

(* C20: a middleware that runs calls next once, with the arguments it got, *)
(* unless it is the guard raising ReadOnlyException or the exception that  *)
(* authenticate raised as the guard forced request.user; then next is not  *)
(* called.                                                                 *)
C20_NextOnceUnlessGuardRaises ==
    /\ [](\A m \in Middlewares : next_calls[m] <= 1)
    /\ [][phase = "chain" =>
            /\ kwargs' = kwargs
            /\ next_calls[chain[pc]] = 0
            /\ IF /\ chain[pc] = READONLY
                  /\ error' \in {"ReadOnlyException", "AuthenticationError"}
               THEN next_calls' = next_calls /\ phase' \in {"unwind", "idle"}
               ELSE /\ next_calls' = [next_calls EXCEPT ![chain[pc]] = 1]
                    /\ error' = "none"
                    /\ phase' \in {"chain", "resolver"}]_vars

C20_Witness ==
    /\ phase = "resolver"
    /\ kwargs = Args(NoInput, "A")
    /\ traced
    /\ \A m \in Middlewares : next_calls[m] = 1


(***************************************************************************)
(* Callers forcing request.user at the same time: the field resolutions of *)
(* one request run side by side, each went through JWTMiddleware.resolve   *)
(* and holds the SimpleLazyObject it read from request.user (the same one  *)
(* or not), and their steps through SimpleLazyObject._setup, user and      *)
(* get_user interleave.  authenticate returns a new object at each call.   *)
(***************************************************************************)
RaceRequests ==
    [ authenticate : AuthResults, ROOT_EMAIL : {NoneVal},
      default_channel : {DefaultSlug},
      operation : {Operation("query", <<"products">>)},
      path : {API_PATH}, header : {<<>>}, active_apps : {{}},
      chain : {<<JWT, CHANNEL, APP, TRACING, READONLY>>},
      document : {Document({NoArgs}, {FALSE}, {"user"})} ]

InitRace ==
    /\ \E r \in RaceRequests :
          /\ authenticate = r.authenticate
          /\ ROOT_EMAIL = r.ROOT_EMAIL
          /\ default_channel = r.default_channel
          /\ operation = r.operation
          /\ path = r.path
          /\ header = r.header
          /\ active_apps = r.active_apps
          /\ chain = r.chain
          /\ document = r.document
    /\ \E held \in [Callers -> Lazies] :
          /\ race = [RaceOff EXCEPT !.pc = [t \in Callers |-> "setup"], !.lazy = held]
          /\ user_installs = Cardinality({held[t] : t \in Callers})
    /\ cached_user = NoAttr
    /\ request_user = LazyUser
    /\ request_channel_slug = LazyChannel(NoneVal)
    /\ request_app = NoneApp
    /\ phase = "resolver"
    /\ pc = Len(chain)
    /\ kwargs = NoArgs
    /\ traced = FALSE
    /\ reads = 0
    /\ fields = MaxCallers
    /\ error = "none"
    /\ last = READONLY
    /\ next_calls = [m \in Middlewares |-> 1]
    /\ slug = NoneVal
    /\ span_open = FALSE
    /\ spans_opened = 0
    /\ spans_closed = 0
    /\ auth_calls = 0
    /\ user_was_read = FALSE
    /\ users_seen = {}
    /\ next_id = 2
    /\ app_installs = 1
    /\ header_parses = 1
    /\ app_lookups = 0
    /\ default_calls = 0
    /\ chan_forced_to = Unread
    /\ chan_first = Unread
    /\ chan_read = Unread
    /\ pending_slug = NoneVal

(* what a step of a caller leaves alone *)
raceFrame ==
    <<config, request_user, user_was_read, users_seen, user_installs, chanVars,
      appVars, spanVars, fieldVars>>

at(t, where) == race.pc[t] = where
goto(r, t, where) == [r EXCEPT !.pc[t] = where]

(* SimpleLazyObject._setup is entered when _wrapped is empty; otherwise    *)
(* the wrapped object is used.                                             *)
RaceSetup(t) ==
    /\ at(t, "setup")
    /\ race' = IF race.wrapped[race.lazy[t]] = NoAttr
               THEN goto(race, t, "hasattr")
               ELSE goto([race EXCEPT !.seen[t] = race.wrapped[race.lazy[t]]], t, "done")
    /\ UNCHANGED <<raceFrame, cached_user, auth_calls, next_id>>

(* line 21 *)
RaceHasattr(t) ==
    /\ at(t, "hasattr")
    /\ race' = IF get_user(cached_user, authenticate).called
               THEN goto(race, t, "authenticate")
               ELSE goto(race, t, "return")
    /\ UNCHANGED <<raceFrame, cached_user, auth_calls, next_id>>

(* line 22, the call *)
RaceAuthenticate(t) ==
    /\ at(t, "authenticate")
    /\ auth_calls' = auth_calls + 1
    /\ IF authenticate.kind = "raise"
       THEN /\ race' = goto(race, t, "raised")
            /\ next_id' = next_id
       ELSE IF authenticate.kind = "none"
       THEN /\ race' = goto([race EXCEPT !.local[t] = PyNone], t, "store")
            /\ next_id' = next_id
       ELSE /\ race' = goto([race EXCEPT !.local[t] =
                                   [authenticate EXCEPT !.id = next_id]], t, "store")
            /\ next_id' = next_id + 1
    /\ UNCHANGED <<raceFrame, cached_user>>

(* line 22, the assignment *)
RaceStore(t) ==
    /\ at(t, "store")
    /\ cached_user' = race.local[t]
    /\ race' = goto(race, t, "return")
    /\ UNCHANGED <<raceFrame, auth_calls, next_id>>

(* lines 23 and 31: request._cached_user is read and returned, or a new    *)
(* AnonymousUser                                                           *)
RaceReturn(t) ==
    /\ at(t, "return")
    /\ LET u == user(cached_user, authenticate, next_id)
       IN  /\ race' = goto([race EXCEPT !.local[t] = u.value], t, "wrap")
           /\ next_id' = next_id + (IF u.created THEN 1 ELSE 0)
    /\ UNCHANGED <<raceFrame, cached_user, auth_calls>>

(* SimpleLazyObject._setup: self._wrapped = self._setupfunc() *)
RaceWrap(t) ==
    /\ at(t, "wrap")
    /\ race' = goto([race EXCEPT !.wrapped[race.lazy[t]] = race.local[t]], t, "read")
    /\ UNCHANGED <<raceFrame, cached_user, auth_calls, next_id>>

(* the caller uses the wrapped object *)
RaceRead(t) ==
    /\ at(t, "read")
    /\ race' = goto([race EXCEPT !.seen[t] = race.wrapped[race.lazy[t]]], t, "done")
    /\ UNCHANGED <<raceFrame, cached_user, auth_calls, next_id>>

NextRace ==
    \E t \in Callers :
        \/ RaceSetup(t)
        \/ RaceHasattr(t)
        \/ RaceAuthenticate(t)
        \/ RaceStore(t)
        \/ RaceReturn(t)
        \/ RaceWrap(t)
        \/ RaceRead(t)

SpecRace == InitRace /\ [][NextRace]_vars

(* the identity authenticate establishes for the request *)
SameValue(a, b) == a.kind = b.kind /\ a.email = b.email
ExpectedIdentity ==
    IF authenticate.kind = "none" THEN AnonymousUser(0) ELSE authenticate

====
